---- MODULE Spec2Model ----
(***************************************************************************)
(* A model of lib/common/socketpool.c of h2o: the pool of idle upstream    *)
(* sockets, its two intrusive lists, the connect state machine and the     *)
(* counters, run by several event loops (one thread each).                 *)
(*                                                                         *)
(* Conventions.                                                            *)
(*  - Target indices are 1-based here (C index i is i+1); 0 stands for     *)
(*    SIZE_MAX ("no target chosen").  A socket is named by its fd; 0 is    *)
(*    the NULL socket.                                                     *)
(*  - size_t / uint64_t values are kept as integers standing for their     *)
(*    residue modulo 2^64: a negative integer v stands for 2^64 + v, the   *)
(*    value the C code holds after a wrapping subtraction.  UGt compares   *)
(*    two such values as the unsigned values they stand for.               *)
(*  - A step of the model is the code between two mutex operations (or a   *)
(*    whole callback when it takes no mutex).                              *)
(***************************************************************************)
EXTENDS Integers, Sequences, FiniteSets, TLC

\* ------------------------------------------------------------------ bounds
\* calls the users make (connect, cancel, close, return) in the runs of
\* Spec, SpecSeq, SpecReuse and SpecLoops
MaxOps == 3
MaxOpsSeq == 3
MaxOpsReuse == 5
MaxOpsLoops == 4
MaxOpsLive == 3
\* clock advances over all loops
MaxTicks == 1

\* --------------------------------------------------------------- constants
\* pool->timeout, in ms (common_init)
PoolTimeout == 2000
\* SIZE_MAX as a target index, NULL as a socket
NoTarget == 0
NoSock == 0

Loops == {"L1", "L2"}
NoLoop == "none"
Urls == {"named", "addr"}
FDs == 1..MaxOpsReuse

VARIABLES
    is_global,      \* pool->is_global
    balancer,       \* pool->_lb.callbacks != NULL
    interval_loop,  \* pool->_interval_cb.loop
    armed,          \* pool->_interval_cb.entry is linked: the timer will fire
    workers,        \* the loops that issue operations in this run
    budget,         \* the calls the users make in this run
    faults,         \* resolution, connect and export may fail in this run
    targets,        \* pool->targets: sequence of [url, type, request_count, sockets]
    sockets,        \* pool->_shared.sockets: the pool-wide list (head first)
    count,          \* pool->_shared.count
    mutex,          \* pool->_shared.mutex: its holder, or NoLoop
    disposed,       \* h2o_socketpool_dispose has drained the pool
    crashed,        \* the process has died of an undefined operation
    sk,             \* per fd: the socket or the pool entry that owns it
    req,            \* per loop: its connect request (at most one at a time)
    resolver,       \* per loop: a getaddr request of that loop is outstanding
    pc,             \* per loop: where its thread is inside the pool's code
    loc,            \* per loop: the locals of the function it is in
    now,            \* per loop: h2o_now(loop)
    ticks,          \* clock advances made
    ops,            \* calls the users have made
    out,            \* the user callback the last step invoked, with its arguments
    rt              \* history: the return/checkout round trip under way

vars == <<is_global, balancer, interval_loop, armed, workers, budget, faults, targets,
          sockets, count,
          mutex, disposed, crashed, sk, req, resolver, pc, loc, now, ticks,
          ops, out, rt>>

\* ------------------------------------------------------------- arithmetic
\* a > b on the unsigned 64-bit values a and b stand for
UGt(a, b) ==
    \/ a >= 0 /\ b >= 0 /\ a > b
    \/ a < 0 /\ b >= 0
    \/ a < 0 /\ b < 0 /\ a > b

ULeq(a, b) == ~UGt(a, b)

RECURSIVE SumRequestCount(_)
SumRequestCount(ts) ==
    IF ts = <<>> THEN 0 ELSE Head(ts).request_count + SumRequestCount(Tail(ts))

Range(s) == {s[i] : i \in 1..Len(s)}
Without(s, S) == SelectSeq(s, LAMBDA x : x \notin S)

\* --------------------------------------------------------------- records
ClosedSock == [st |-> "closed", hook |-> FALSE, target |-> NoTarget,
               added_at |-> 0, loop |-> NoLoop, peer |-> "alive"]

NoReq == [st |-> "none", selected_target |-> NoTarget, remaining_try_count |-> 0,
          has_tried |-> FALSE, tried |-> {}, sock |-> NoSock, sock_closed |-> FALSE,
          prev_target |-> NoTarget, getaddr_req |-> FALSE, count0 |-> 0, rc0 |-> <<>>]

NoLoc == [entry |-> NoSock, url |-> "none"]

NoOut == [loop |-> NoLoop, sock |-> NoSock, err |-> "none", stale |-> FALSE, tried |-> {},
          timer |-> "none"]

NoRt == [phase |-> "none", fd |-> NoSock, loop |-> NoLoop, count0 |-> 0, rc0 |-> <<>>]

\* detect_target_type: a host that is no numeric address is resolved by name
TargetType(url) == IF url = "named" THEN "NAMED" ELSE "SOCKADDR"

\* init_target
InitTarget(url) == [url |-> url, type |-> TargetType(url), request_count |-> 0,
                    sockets |-> <<>>]

RequestCounts == [i \in 1..Len(targets) |-> targets[i].request_count]

\* ------------------------------------------------------------ pool state
\* The mutable part of the pool as one value, so that the calls a function
\* makes in a row compose: p.sockets, p.targets, p.sk, p.count.
Cur == [sockets |-> sockets, targets |-> targets, sk |-> sk, count |-> count]

Apply(p) ==
    /\ sockets' = p.sockets
    /\ targets' = p.targets
    /\ sk' = p.sk
    /\ count' = p.count

\* h2o_linklist_insert(anchor, node): the node is linked before the anchor,
\* that is at the tail of the list
LinklistInsert(list, e) == Append(list, e)

\* h2o_linklist_unlink(node): the node leaves the list it is linked in
LinklistUnlink(list, e) == Without(list, {e})

UnlinkAllLink(p, e) == [p EXCEPT !.sockets = LinklistUnlink(@, e)]

UnlinkTargetLink(p, e) ==
    [p EXCEPT !.targets = [i \in DOMAIN @ |->
                             [@[i] EXCEPT !.sockets = LinklistUnlink(@, e)]]]

\* destroy_detached: dispose the exported socket (its fd is closed), free the entry
DestroyDetached(p, e) == [p EXCEPT !.sk[e] = ClosedSock]

\* destroy_attached
DestroyAttached(p, e) == DestroyDetached(UnlinkTargetLink(UnlinkAllLink(p, e), e), e)

\* the loop condition of destroy_expired: the head entry is still young
NotExpired(added_at, expire_before) == UGt(added_at, expire_before)

RECURSIVE DestroyExpiredLoop(_, _)
DestroyExpiredLoop(p, expire_before) ==
    IF p.sockets = <<>> THEN p
    ELSE LET e == Head(p.sockets) IN
         IF NotExpired(p.sk[e].added_at, expire_before) THEN p
         ELSE DestroyExpiredLoop([DestroyAttached(p, e) EXCEPT !.count = @ - 1],
                                 expire_before)

\* destroy_expired (the caller holds the mutex)
DestroyExpired(p) ==
    IF interval_loop = NoLoop THEN p
    ELSE DestroyExpiredLoop(p, now[interval_loop] - PoolTimeout)

RECURSIVE DrainLoop(_)
DrainLoop(p) ==
    IF p.sockets = <<>> THEN p
    ELSE DrainLoop([DestroyAttached(p, Head(p.sockets)) EXCEPT !.count = @ - 1])

IncRequestCount(p, i) == [p EXCEPT !.targets[i].request_count = @ + 1]
DecRequestCount(p, i) == [p EXCEPT !.targets[i].request_count = @ - 1]

\* on_close: the hook of every socket the pool hands out
OnClose(p, fd) ==
    [DecRequestCount(p, p.sk[fd].target) EXCEPT !.count = @ - 1]

\* h2o_socket_close: run the on-close hook if one is set, close the fd
SocketClose(p, fd) ==
    [(IF p.sk[fd].hook THEN OnClose(p, fd) ELSE p) EXCEPT !.sk[fd] = ClosedSock]

\* the fd the kernel gives to a new socket: the lowest one not in use
NewFd(p) == CHOOSE fd \in FDs :
               /\ p.sk[fd].st = "closed"
               /\ \A g \in FDs : p.sk[g].st = "closed" => fd <= g

\* a lookup that finds no target
LookupTargetMisses(ts, url) == NoTarget

\* lookup_target: the first target with the URL's scheme, port and host, or none
LookupTarget(ts, url) ==
    IF \E i \in 1..Len(ts) : ts[i].url = url
    THEN CHOOSE i \in 1..Len(ts) :
             /\ ts[i].url = url
             /\ \A j \in 1..Len(ts) : ts[j].url = url => i <= j
    ELSE NoTarget

\* add_target
AddTarget(p, url) == [p EXCEPT !.targets = Append(@, InitTarget(url))]

\* cb(sock, errstr, data, url) invoked on loop t; stale: sock is a closed socket;
\* tried: the request's bitmap as it is when the request is freed for the call
CallCb(t, sock, err, stale) ==
    out' = [loop |-> t, sock |-> sock, err |-> err, stale |-> stale,
            tried |-> req[t].tried, timer |-> "none"]
NoCb == out' = NoOut
\* on_timeout has run in the last step: outcome is "expired" (it got the mutex)
\* or "skipped" (it did not)
TimerRan(outcome) == out' = [NoOut EXCEPT !.timer = outcome]

\* ------------------------------------------------------------------ Init
InitPool(w, b, f) ==
    /\ workers = w
    /\ budget = b
    /\ faults = f
    /\ \/ is_global = TRUE /\ balancer = FALSE /\ targets = <<>>
       \/ /\ is_global = FALSE /\ balancer = FALSE
          /\ \E u \in Urls : targets = <<InitTarget(u)>>
       \/ /\ is_global = FALSE /\ balancer = TRUE
          /\ targets = <<InitTarget("named"), InitTarget("addr")>>
    /\ interval_loop \in {NoLoop, "L1"}
    /\ armed = (interval_loop # NoLoop)
    /\ sockets = <<>>
    /\ count = 0
    /\ mutex = NoLoop
    /\ disposed = FALSE
    /\ crashed = FALSE
    /\ sk = [fd \in FDs |-> ClosedSock]
    /\ req = [t \in Loops |-> NoReq]
    /\ resolver = [t \in Loops |-> FALSE]
    /\ pc = [t \in Loops |-> "idle"]
    /\ loc = [t \in Loops |-> NoLoc]
    /\ now = [t \in Loops |-> 0]
    /\ ticks = 0
    /\ ops = 0
    /\ out = NoOut
    /\ rt = NoRt

Init == InitPool(Loops, MaxOps, FALSE)
InitSeq == InitPool({"L1"}, MaxOpsSeq, TRUE)
InitReuse == InitPool({"L1"}, MaxOpsReuse, FALSE)
InitLoops == InitPool(Loops, MaxOpsLoops, FALSE)
InitLive == InitPool(Loops, MaxOpsLive, TRUE)

\* a loop's thread may run pool code
Running(t) == t \in workers /\ ~crashed /\ ~disposed
AtLoop(t) == Running(t) /\ pc[t] = "idle"

\* the round trip under way survives only the steps of its own connect
RtKeep(t) == rt' = IF rt.loop = t /\ rt.phase = "connect" THEN rt ELSE NoRt
RtDrop == rt' = NoRt

Config == <<is_global, balancer, workers, budget, faults>>

\* ---------------------------------------------- h2o_socketpool_connect
\* lines 479: the caller takes the mutex
ConnectLock(t, url) ==
    /\ AtLoop(t)
    /\ req[t].st = "none"
    /\ ops < budget
    /\ mutex = NoLoop
    /\ mutex' = t
    /\ pc' = [pc EXCEPT ![t] = "c_crit"]
    /\ loc' = [loc EXCEPT ![t] = [entry |-> NoSock, url |-> url]]
    /\ ops' = ops + 1
    /\ req' = [req EXCEPT ![t] = [NoReq EXCEPT !.st = "running", !.count0 = count,
                                               !.rc0 = RequestCounts]]
    /\ NoCb
    /\ rt' = IF /\ rt.phase = "returned" /\ rt.loop = t
                /\ sk[rt.fd].st = "entry"
                /\ targets[sk[rt.fd].target].url = url
             THEN [rt EXCEPT !.phase = "connect"] ELSE NoRt
    /\ UNCHANGED <<Config, armed, interval_loop, targets, sockets, count, disposed, crashed,
                   sk, resolver, now, ticks>>

\* lines 480-511: expire, find or add the target, unlock, build the request
ConnectCrit(t) ==
    /\ Running(t)
    /\ pc[t] = "c_crit"
    /\ LET p1 == DestroyExpired(Cur)
           found == LookupTarget(p1.targets, loc[t].url)
           p2 == IF is_global /\ found = NoTarget THEN AddTarget(p1, loc[t].url) ELSE p1
           target == IF ~is_global THEN NoTarget
                     ELSE IF found = NoTarget THEN Len(p2.targets) ELSE found
       IN /\ Apply(p2)
          /\ req' = [req EXCEPT ![t] =
                       [@ EXCEPT !.selected_target = target,
                                 !.has_tried = (target = NoTarget),
                                 !.remaining_try_count =
                                     IF target = NoTarget THEN Len(p2.targets) ELSE 1]]
    /\ mutex' = NoLoop
    /\ pc' = [pc EXCEPT ![t] = "t_lock"]
    /\ RtKeep(t)
    /\ NoCb
    /\ UNCHANGED <<Config, armed, interval_loop, disposed, crashed, resolver, loc, now, ticks,
                   ops>>

\* ------------------------------------------------------------ try_connect
\* the balancer's selector: some target the request has not tried
Selector(r) == (1..Len(targets)) \ r.tried

\* a selection that leaves the bitmap as it was
MarkTriedForgotten(r, i) == r.tried

\* line 368: req->lb.tried[req->selected_target] = 1
MarkTried(r, i) == r.tried \cup {i}

\* lines 361-375: count the attempt, lock, select the target
TrySelect(t) ==
    /\ Running(t)
    /\ pc[t] = "t_lock"
    /\ mutex = NoLoop
    /\ LET r == req[t]
           lb == r.has_tried /\ balancer
       IN \E i \in (IF lb THEN Selector(r)
                    ELSE IF r.has_tried THEN {1} ELSE {r.selected_target}) :
            /\ Apply(IF lb THEN IncRequestCount(Cur, i) ELSE Cur)
            /\ req' = [req EXCEPT ![t] =
                         [r EXCEPT !.selected_target = i,
                                   !.tried = IF lb THEN MarkTried(r, i) ELSE r.tried,
                                   !.remaining_try_count = @ - 1]]
    /\ mutex' = t
    /\ pc' = [pc EXCEPT ![t] = "t_peek"]
    /\ RtKeep(t)
    /\ NoCb
    /\ UNCHANGED <<Config, armed, interval_loop, disposed, crashed, resolver, loc, now, ticks,
                   ops>>

\* lines 378-379: the target's idle list is not empty; look at its head
TryPeek(t) ==
    /\ Running(t)
    /\ pc[t] = "t_peek"
    /\ targets[req[t].selected_target].sockets # <<>>
    /\ loc' = [loc EXCEPT ![t].entry = Head(targets[req[t].selected_target].sockets)]
    /\ pc' = [pc EXCEPT ![t] = "t_unlink"]
    /\ RtKeep(t)
    /\ NoCb
    /\ UNCHANGED <<Config, armed, interval_loop, targets, sockets, count, mutex, disposed,
                   crashed, sk, req, resolver, now, ticks, ops>>

\* a checkout that goes on to the probe with the mutex still held
UnlockBeforeProbeForgotten(t) == t

\* line 382: pthread_mutex_unlock before the probe; the holder afterwards
UnlockBeforeProbe(t) == NoLoop

\* lines 380-382: unlink the entry from both lists, unlock
TryUnlink(t) ==
    /\ Running(t)
    /\ pc[t] = "t_unlink"
    /\ Apply(UnlinkTargetLink(UnlinkAllLink(Cur, loc[t].entry), loc[t].entry))
    /\ mutex' = UnlockBeforeProbe(t)
    /\ pc' = [pc EXCEPT ![t] = "t_probe"]
    /\ RtKeep(t)
    /\ NoCb
    /\ UNCHANGED <<Config, armed, interval_loop, disposed, crashed, req, resolver, loc, now,
                   ticks, ops>>

\* recv(fd, buf, 1, MSG_PEEK) says EAGAIN: the peer has neither closed nor sent
ProbeAlive(s) == s.st = "entry" /\ s.peer = "alive"

\* lines 384-415: probe the entry; hand its socket to the callback, or drop it
TryProbe(t) ==
    /\ Running(t)
    /\ pc[t] = "t_probe"
    /\ LET e == loc[t].entry IN
       IF ProbeAlive(sk[e])
       THEN /\ Apply([Cur EXCEPT !.sk[e] = [st |-> "open", hook |-> TRUE,
                                            target |-> sk[e].target, added_at |-> 0,
                                            loop |-> t, peer |-> "alive"]])
            /\ CallCb(t, e, "none", FALSE)
            /\ req' = [req EXCEPT ![t] = NoReq]
            /\ pc' = [pc EXCEPT ![t] = "idle"]
       ELSE /\ Apply(DestroyDetached(Cur, e))
            /\ pc' = [pc EXCEPT ![t] = "t_relock"]
            /\ NoCb
            /\ UNCHANGED req
    /\ loc' = [loc EXCEPT ![t] = NoLoc]
    /\ RtKeep(t)
    /\ UNCHANGED <<Config, armed, interval_loop, mutex, disposed, crashed, resolver, now,
                   ticks, ops>>

\* line 415: lock again for the next entry
TryRelock(t) ==
    /\ Running(t)
    /\ pc[t] = "t_relock"
    /\ mutex = NoLoop
    /\ mutex' = t
    /\ pc' = [pc EXCEPT ![t] = "t_peek"]
    /\ RtKeep(t)
    /\ NoCb
    /\ UNCHANGED <<Config, armed, interval_loop, targets, sockets, count, disposed, crashed,
                   sk, req, resolver, loc, now, ticks, ops>>

\* a failure path that keeps the count of the attempt
GiveBackCountForgotten(p) == p

\* lines 341 and 443: __sync_sub_and_fetch(&pool->_shared.count, 1)
GiveBackCount(p) == [p EXCEPT !.count = @ - 1]

\* start_connect: h2o_socket_connect gives a socket whose connect is in flight
\* (ok), or NULL
StartConnect(t, p, r, ok) ==
    /\ IF ok
       THEN LET fd == NewFd(p) IN
            /\ Apply([p EXCEPT !.sk[fd] = [st |-> "connecting", hook |-> TRUE,
                                           target |-> r.selected_target, added_at |-> 0,
                                           loop |-> t, peer |-> "alive"]])
            /\ req' = [req EXCEPT ![t] = [r EXCEPT !.sock = fd, !.sock_closed = FALSE,
                                                   !.st = "connecting"]]
            /\ NoCb
       ELSE /\ Apply(GiveBackCount(p))
            /\ req' = [req EXCEPT ![t] = NoReq]
            /\ CallCb(t, NoSock, "failed to connect to host", FALSE)
    /\ pc' = [pc EXCEPT ![t] = "idle"]
    /\ loc' = [loc EXCEPT ![t] = NoLoc]

\* lines 417-432: the idle list is empty; unlock, count the socket, resolve or connect
TryFresh(t, ok) ==
    /\ Running(t)
    /\ ok \/ faults
    /\ pc[t] = "t_peek"
    /\ targets[req[t].selected_target].sockets = <<>>
    /\ mutex' = NoLoop
    /\ LET p == [Cur EXCEPT !.count = @ + 1] IN
       IF targets[req[t].selected_target].type = "NAMED"
       THEN /\ ok
            /\ Apply(p)
            /\ req' = [req EXCEPT ![t] = [@ EXCEPT !.getaddr_req = TRUE,
                                                   !.st = "resolving"]]
            /\ resolver' = [resolver EXCEPT ![t] = TRUE]
            /\ pc' = [pc EXCEPT ![t] = "idle"]
            /\ loc' = [loc EXCEPT ![t] = NoLoc]
            /\ NoCb
       ELSE /\ StartConnect(t, p, req[t], ok)
            /\ UNCHANGED resolver
    /\ RtKeep(t)
    /\ UNCHANGED <<Config, armed, interval_loop, disposed, crashed, now, ticks, ops>>

\* on_getaddr: the resolver's answer; res is "error", or the address resolved and
\* the connect primitive's result: "inflight" or "refused"
OnGetaddr(t, res) ==
    /\ AtLoop(t)
    /\ res = "inflight" \/ faults
    /\ resolver[t]
    /\ resolver' = [resolver EXCEPT ![t] = FALSE]
    /\ LET r == [req[t] EXCEPT !.getaddr_req = FALSE] IN
       IF res = "error"
       THEN /\ Apply(GiveBackCount(Cur))
            /\ req' = [req EXCEPT ![t] = NoReq]
            /\ CallCb(t, r.sock, "resolver error", r.sock_closed)
            /\ UNCHANGED <<pc, loc>>
       ELSE StartConnect(t, Cur, r, res = "inflight")
    /\ RtDrop
    /\ UNCHANGED <<Config, armed, interval_loop, mutex, disposed, crashed, now, ticks, ops>>

\* a failure handler that always goes on to another attempt
LastTryNever(r) == FALSE

\* line 315: req->remaining_try_count == 0
LastTry(r) == r.remaining_try_count = 0

\* on_connect: the loop reports the outcome of the connect of socket fd
OnConnect(fd, ok) ==
    /\ sk[fd].st = "connecting"
    /\ ok \/ faults
    /\ AtLoop(sk[fd].loop)
    /\ LET t == sk[fd].loop
           r == req[t]
       IN IF ok
          THEN /\ Apply([Cur EXCEPT !.sk[fd].st = "open"])
               /\ req' = [req EXCEPT ![t] = NoReq]
               /\ CallCb(t, r.sock, "none", FALSE)
               /\ UNCHANGED pc
          ELSE /\ Apply(SocketClose(DecRequestCount(Cur, r.selected_target), fd))
               /\ IF LastTry(r)
                  THEN /\ req' = [req EXCEPT ![t] = NoReq]
                       /\ CallCb(t, NoSock, "connection failed", FALSE)
                       /\ UNCHANGED pc
                  ELSE /\ req' = [req EXCEPT ![t] =
                                    [r EXCEPT !.st = "running", !.sock_closed = TRUE,
                                              !.prev_target = r.selected_target]]
                       /\ pc' = [pc EXCEPT ![t] = "t_lock"]
                       /\ NoCb
    /\ RtDrop
    /\ UNCHANGED <<Config, armed, interval_loop, mutex, disposed, crashed, resolver, loc, now,
                   ticks, ops>>

\* a cancel that leaves the resolver's request outstanding
CancelGetaddrForgotten(res, t) == res

\* h2o_hostinfo_getaddr_cancel: the resolver will not call back
CancelGetaddr(res, t) == [res EXCEPT ![t] = FALSE]

\* h2o_socketpool_cancel_connect.  Closing a socket that on_connect has closed
\* already is undefined: the process dies, or the freed socket's hook runs once
\* more, or nothing visible happens.
Cancel(t, ub) ==
    /\ AtLoop(t)
    /\ ops < budget
    /\ ops' = ops + 1
    /\ req[t].st \in {"resolving", "connecting"}
    /\ LET r == req[t] IN
       /\ resolver' = IF r.getaddr_req THEN CancelGetaddr(resolver, t) ELSE resolver
       /\ IF r.sock = NoSock
          THEN ub = "none" /\ Apply(Cur) /\ UNCHANGED crashed
          ELSE IF ~r.sock_closed
          THEN ub = "none" /\ Apply(SocketClose(Cur, r.sock)) /\ UNCHANGED crashed
          ELSE /\ crashed' = (ub = "crash")
               /\ Apply(IF ub = "hook"
                        THEN [DecRequestCount(Cur, r.prev_target) EXCEPT !.count = @ - 1]
                        ELSE Cur)
    /\ req' = [req EXCEPT ![t] = NoReq]
    /\ NoCb
    /\ RtDrop
    /\ UNCHANGED <<Config, armed, interval_loop, mutex, disposed, pc, loc, now, ticks>>

\* the user closes a socket the pool handed out
Close(t, fd) ==
    /\ AtLoop(t)
    /\ ops < budget
    /\ ops' = ops + 1
    /\ sk[fd].st = "open"
    /\ sk[fd].loop = t
    /\ Apply(SocketClose(Cur, fd))
    /\ RtDrop
    /\ NoCb
    /\ UNCHANGED <<Config, armed, interval_loop, mutex, disposed, crashed, req, resolver, pc,
                   loc, now, ticks>>

\* ----------------------------------------------- h2o_socketpool_return
\* lines 534-552: drop the hook, export the socket, stamp the entry
ReturnExport(t, fd, ok) ==
    /\ AtLoop(t)
    /\ ok \/ faults
    /\ ops < budget
    /\ ops' = ops + 1
    /\ sk[fd].st = "open"
    /\ sk[fd].hook
    /\ sk[fd].loop = t
    /\ LET p == DecRequestCount(Cur, sk[fd].target) IN
       IF ok
       THEN /\ Apply([p EXCEPT !.sk[fd] = [st |-> "entry", hook |-> FALSE,
                                           target |-> sk[fd].target,
                                           added_at |-> now[sk[fd].loop],
                                           loop |-> NoLoop, peer |-> sk[fd].peer]])
            /\ pc' = [pc EXCEPT ![t] = "r_lock"]
            /\ loc' = [loc EXCEPT ![t].entry = fd]
            /\ rt' = [phase |-> "export", fd |-> fd, loop |-> t, count0 |-> count,
                      rc0 |-> RequestCounts]
       ELSE /\ Apply([p EXCEPT !.count = @ - 1,
                               !.sk[fd] = [sk[fd] EXCEPT !.hook = FALSE,
                                                         !.target = NoTarget]])
            /\ RtDrop
            /\ UNCHANGED <<pc, loc>>
    /\ NoCb
    /\ UNCHANGED <<Config, armed, interval_loop, mutex, disposed, crashed, req, resolver, now,
                   ticks>>

InsertAllLink(p, e) == [p EXCEPT !.sockets = LinklistInsert(@, e)]

\* a return that links the entry into the pool-wide list only
InsertTargetLinkForgotten(p, e) == p

InsertTargetLink(p, e) ==
    [p EXCEPT !.targets[p.sk[e].target].sockets = LinklistInsert(@, e)]

\* lines 554-559: lock, expire, link the entry into both lists, unlock
ReturnInsert(t) ==
    /\ Running(t)
    /\ pc[t] = "r_lock"
    /\ mutex = NoLoop
    /\ LET e == loc[t].entry IN
       Apply(InsertTargetLink(InsertAllLink(DestroyExpired(Cur), e), e))
    /\ pc' = [pc EXCEPT ![t] = "idle"]
    /\ loc' = [loc EXCEPT ![t] = NoLoc]
    /\ rt' = IF rt.phase = "export" /\ rt.loop = t
             THEN [rt EXCEPT !.phase = "returned"] ELSE NoRt
    /\ NoCb
    /\ UNCHANGED <<Config, armed, interval_loop, mutex, disposed, crashed, req, resolver, now,
                   ticks, ops>>

\* ------------------------------------------------------------ on_timeout
\* a timer that expires entries without regard to the mutex
TimerTrylockIgnored == TRUE

\* pthread_mutex_trylock succeeds
TimerTrylock == mutex = NoLoop

\* a timer that is linked again only after a tick that got the mutex
TimerLinkIfLocked(locked) == locked

\* line 110: h2o_timeout_link, whether or not the mutex was acquired
TimerLink(locked) == TRUE

\* the timer fires and gets the mutex: expire, unlock, re-arm
TimerExpire(t) ==
    /\ AtLoop(t)
    /\ t = interval_loop
    /\ armed
    /\ TimerTrylock
    /\ Apply(DestroyExpired(Cur))
    /\ armed' = TimerLink(TRUE)
    /\ RtDrop
    /\ TimerRan("expired")
    /\ UNCHANGED <<Config, interval_loop, mutex, disposed, crashed, req, resolver, pc,
                   loc, now, ticks, ops>>

\* the timer fires while another thread holds the mutex: re-arm only
TimerSkip(t) ==
    /\ AtLoop(t)
    /\ t = interval_loop
    /\ armed
    /\ ~TimerTrylock
    /\ armed' = TimerLink(FALSE)
    /\ RtDrop
    /\ TimerRan("skipped")
    /\ UNCHANGED <<Config, interval_loop, targets, sockets, count, mutex, disposed,
                   crashed, sk, req, resolver, pc, loc, now, ticks, ops>>

\* h2o_socketpool_dispose, lines 248-262: drain the idle entries under the mutex,
\* unregister the loop.  Nothing may use the pool afterwards.
Dispose(t) ==
    /\ AtLoop(t)
    /\ mutex = NoLoop
    /\ Apply(DrainLoop(Cur))
    /\ disposed' = TRUE
    /\ interval_loop' = NoLoop
    /\ armed' = FALSE
    /\ RtDrop
    /\ NoCb
    /\ UNCHANGED <<Config, mutex, crashed, req, resolver, pc, loc, now, ticks,
                   ops>>

\* ------------------------------------------------------------ environment
\* the peer closes (or writes to) an idle connection
PeerClose(fd) ==
    /\ ~crashed /\ ~disposed
    /\ sk[fd].st = "entry"
    /\ sk[fd].peer = "alive"
    /\ sk' = [sk EXCEPT ![fd].peer = "dead"]
    /\ RtDrop
    /\ NoCb
    /\ UNCHANGED <<Config, armed, interval_loop, targets, sockets, count, mutex, disposed,
                   crashed, req, resolver, pc, loc, now, ticks, ops>>

\* a loop's cached clock advances; time is sampled at multiples of the idle timeout
Tick(t) ==
    /\ AtLoop(t)
    /\ ticks < MaxTicks
    /\ now' = [now EXCEPT ![t] = @ + PoolTimeout]
    /\ ticks' = ticks + 1
    /\ RtDrop
    /\ NoCb
    /\ UNCHANGED <<Config, armed, interval_loop, targets, sockets, count, mutex, disposed,
                   crashed, sk, req, resolver, pc, loc, ops>>

\* ------------------------------------------------------- specifications
Next ==
    \/ \E t \in Loops, url \in Urls : ConnectLock(t, url)
    \/ \E t \in Loops : ConnectCrit(t)
    \/ \E t \in Loops : TrySelect(t)
    \/ \E t \in Loops : TryPeek(t)
    \/ \E t \in Loops : TryUnlink(t)
    \/ \E t \in Loops : TryProbe(t)
    \/ \E t \in Loops : TryRelock(t)
    \/ \E t \in Loops, ok \in BOOLEAN : TryFresh(t, ok)
    \/ \E t \in Loops, res \in {"error", "inflight", "refused"} : OnGetaddr(t, res)
    \/ \E fd \in FDs, ok \in BOOLEAN : OnConnect(fd, ok)
    \/ \E t \in Loops, ub \in {"none", "crash", "hook"} : Cancel(t, ub)
    \/ \E t \in Loops, fd \in FDs : Close(t, fd)
    \/ \E t \in Loops, fd \in FDs, ok \in BOOLEAN : ReturnExport(t, fd, ok)
    \/ \E t \in Loops : ReturnInsert(t)
    \/ \E t \in Loops : TimerExpire(t)
    \/ \E t \in Loops : TimerSkip(t)
    \/ \E t \in Loops : Dispose(t)
    \/ \E fd \in FDs : PeerClose(fd)
    \/ \E t \in Loops : Tick(t)

Spec == Init /\ [][Next]_vars

\* one loop alone: no step finds the mutex held by another thread
NextSeq ==
    \/ \E t \in Loops, url \in Urls : ConnectLock(t, url)
    \/ \E t \in Loops : ConnectCrit(t)
    \/ \E t \in Loops : TrySelect(t)
    \/ \E t \in Loops : TryPeek(t)
    \/ \E t \in Loops : TryUnlink(t)
    \/ \E t \in Loops : TryProbe(t)
    \/ \E t \in Loops : TryRelock(t)
    \/ \E t \in Loops, ok \in BOOLEAN : TryFresh(t, ok)
    \/ \E t \in Loops, res \in {"error", "inflight", "refused"} : OnGetaddr(t, res)
    \/ \E fd \in FDs, ok \in BOOLEAN : OnConnect(fd, ok)
    \/ \E t \in Loops, ub \in {"none", "crash", "hook"} : Cancel(t, ub)
    \/ \E t \in Loops, fd \in FDs : Close(t, fd)
    \/ \E t \in Loops, fd \in FDs, ok \in BOOLEAN : ReturnExport(t, fd, ok)
    \/ \E t \in Loops : ReturnInsert(t)
    \/ \E t \in Loops : TimerExpire(t)
    \/ \E t \in Loops : Dispose(t)
    \/ \E fd \in FDs : PeerClose(fd)
    \/ \E t \in Loops : Tick(t)

SpecSeq == InitSeq /\ [][NextSeq]_vars

\* one loop alone, every resolution, connect and export succeeding, no request
\* cancelled
NextReuse ==
    \/ \E t \in Loops, url \in Urls : ConnectLock(t, url)
    \/ \E t \in Loops : ConnectCrit(t)
    \/ \E t \in Loops : TrySelect(t)
    \/ \E t \in Loops : TryPeek(t)
    \/ \E t \in Loops : TryUnlink(t)
    \/ \E t \in Loops : TryProbe(t)
    \/ \E t \in Loops : TryRelock(t)
    \/ \E t \in Loops, ok \in BOOLEAN : TryFresh(t, ok)
    \/ \E t \in Loops, res \in {"error", "inflight", "refused"} : OnGetaddr(t, res)
    \/ \E fd \in FDs, ok \in BOOLEAN : OnConnect(fd, ok)
    \/ \E t \in Loops, fd \in FDs : Close(t, fd)
    \/ \E t \in Loops, fd \in FDs, ok \in BOOLEAN : ReturnExport(t, fd, ok)
    \/ \E t \in Loops : ReturnInsert(t)
    \/ \E t \in Loops : TimerExpire(t)
    \/ \E t \in Loops : Dispose(t)
    \/ \E fd \in FDs : PeerClose(fd)
    \/ \E t \in Loops : Tick(t)

SpecReuse == InitReuse /\ [][NextReuse]_vars

\* two loops, every resolution, connect and export succeeding, more calls
SpecLoops == InitLoops /\ [][Next]_vars

\* two loops, every failure outcome, the pool kept alive and the clock still;
\* the threads, the resolver and the loops' connects make progress
NextLive ==
    \/ \E t \in Loops, url \in Urls : ConnectLock(t, url)
    \/ \E t \in Loops : ConnectCrit(t)
    \/ \E t \in Loops : TrySelect(t)
    \/ \E t \in Loops : TryPeek(t)
    \/ \E t \in Loops : TryUnlink(t)
    \/ \E t \in Loops : TryProbe(t)
    \/ \E t \in Loops : TryRelock(t)
    \/ \E t \in Loops, ok \in BOOLEAN : TryFresh(t, ok)
    \/ \E t \in Loops, res \in {"error", "inflight", "refused"} : OnGetaddr(t, res)
    \/ \E fd \in FDs, ok \in BOOLEAN : OnConnect(fd, ok)
    \/ \E t \in Loops, ub \in {"none", "crash", "hook"} : Cancel(t, ub)
    \/ \E t \in Loops, fd \in FDs : Close(t, fd)
    \/ \E t \in Loops, fd \in FDs, ok \in BOOLEAN : ReturnExport(t, fd, ok)
    \/ \E t \in Loops : ReturnInsert(t)
    \/ \E t \in Loops : TimerExpire(t)
    \/ \E t \in Loops : TimerSkip(t)
    \/ \E fd \in FDs : PeerClose(fd)

\* every thread inside the pool's code goes on, the mutex is granted to a thread
\* that keeps asking for it, the resolver answers every request it was given and
\* a loop reports the outcome of every connect it accepted
Fairness ==
    /\ \A t \in Loops :
           /\ WF_vars(ConnectCrit(t))
           /\ SF_vars(TrySelect(t))
           /\ WF_vars(TryPeek(t))
           /\ WF_vars(TryUnlink(t))
           /\ WF_vars(TryProbe(t))
           /\ SF_vars(TryRelock(t))
           /\ WF_vars(\E ok \in BOOLEAN : TryFresh(t, ok))
           /\ SF_vars(ReturnInsert(t))
           /\ WF_vars(\E res \in {"error", "inflight", "refused"} : OnGetaddr(t, res))
    /\ \A fd \in FDs : WF_vars(\E ok \in BOOLEAN : OnConnect(fd, ok))

SpecLive == InitLive /\ [][NextLive]_vars /\ Fairness

\* ---------------------------------------------------------------- claims
\* no thread is inside the pool's code and no connect request is pending
Quiescent == \A t \in Loops : pc[t] = "idle" /\ req[t].st = "none"

\* the sockets handed out to callers and neither closed nor given back
HandedOut == {fd \in FDs : sk[fd].st = "open" /\ sk[fd].hook}

\* C1: every invocation of the user callback is for a request that is pending
\* (created, not yet called back, not cancelled) and ends that request; so a
\* request's callback runs at most once, and never after its cancellation.
C1_CallbackAtMostOnce ==
    [][out'.loop # NoLoop =>
         /\ req[out'.loop].st # "none"
         /\ req'[out'.loop].st = "none"]_vars

\* the callback has just reported the failure of the last of several attempts
C1_Witness ==
    /\ out.loop # NoLoop
    /\ out.err = "connection failed"
    /\ balancer

\* the loops holding fd as an entry taken out of, or not yet put into, the lists
Holders(fd) == {t \in Loops : pc[t] \in {"t_probe", "r_lock"} /\ loc[t].entry = fd}
Occurrences(list, fd) == Cardinality({i \in 1..Len(list) : list[i] = fd})

InTarget(fd) == {i \in 1..Len(targets) : Occurrences(targets[i].sockets, fd) > 0}

\* C3: when the mutex is free, an entry is in the pool-wide list iff it is in
\* the list of its own target, once, and in no other target's list.
C3_ListsAgree ==
    mutex = NoLoop =>
        \A fd \in FDs :
            IF Occurrences(sockets, fd) > 0
            THEN /\ Occurrences(sockets, fd) = 1
                 /\ sk[fd].st = "entry"
                 /\ InTarget(fd) = {sk[fd].target}
                 /\ Occurrences(targets[sk[fd].target].sockets, fd) = 1
            ELSE InTarget(fd) = {}

\* an entry is idle in both lists, the mutex is free, and a connect on the loop
\* that did not return it is about to lock and look for it
C3_Witness ==
    /\ mutex = NoLoop
    /\ Len(sockets) = 1
    /\ pc["L2"] = "t_lock"
    /\ pc["L1"] = "idle"

\* C4: with no request pending, count = sockets handed out + idle entries.
C4_CountIsHandedOutPlusIdle ==
    Quiescent => count = Cardinality(HandedOut) + Len(sockets)

\* the sockets and connect attempts of target i that are in flight
InFlight(i) ==
    Cardinality({fd \in FDs : sk[fd].st \in {"connecting", "open"}
                               /\ sk[fd].hook /\ sk[fd].target = i})
    + Cardinality({t \in Loops : req[t].st \in {"running", "resolving"}
                                  /\ req[t].selected_target = i})

\* C5: with no thread inside the pool's code, every target's request_count is
\* the number of its in-flight sockets and attempts, and is not below zero.
C5_RequestCountIsInFlight ==
    (\A t \in Loops : pc[t] = "idle") =>
        \A i \in 1..Len(targets) :
            /\ targets[i].request_count = InFlight(i)
            /\ targets[i].request_count >= 0

\* C6: after every completed operation the sum of the request_counts is at
\* most count (as the unsigned values they are).
C6_SumRequestCountLeqCount ==
    Quiescent => ULeq(SumRequestCount(targets), count)

\* the request of loop t is cancelled in this step
Cancelled(t) ==
    /\ req[t].st \in {"resolving", "connecting"}
    /\ req'[t].st = "none"
    /\ out'.loop = NoLoop
    /\ ~crashed'

\* request_count of target i at the time of the snapshot rc0
CountAt(rc0, i) == IF i \in DOMAIN rc0 THEN rc0[i] ELSE 0

\* C7: cancelling the only request ever made on a pool leaves count and the
\* selected target's request_count as they were before the connect call.
C7_CancelLeaksNothing ==
    [][\A t \in Loops :
         Cancelled(t) /\ ops = 1 =>
            /\ count' = req[t].count0
            /\ targets'[req[t].selected_target].request_count
                 = CountAt(req[t].rc0, req[t].selected_target)]_vars

\* C8: the pool-wide list is sorted by added_at, oldest at the head.
C8_SortedByAddedAt ==
    \A i \in 1..Len(sockets), j \in 1..Len(sockets) :
        i < j => ULeq(sk[sockets[i]].added_at, sk[sockets[j]].added_at)

\* the idle entries of target i in the order of their return: the pool-wide
\* list, which every return extends at its tail
ReturnedOf(i) == SelectSeq(sockets, LAMBDA e : sk[e].target = i)

\* loop t takes an entry out of its target's list, all of whose entries are alive
Checkout(t) ==
    /\ pc[t] = "t_unlink"
    /\ pc'[t] = "t_probe"
    /\ Len(ReturnedOf(req[t].selected_target)) >= 1
    /\ \A e \in Range(targets[req[t].selected_target].sockets) : sk[e].peer = "alive"

\* C9: the entry a connect takes out of its target's list, all of whose entries
\* are alive and unexpired, is the most recently returned one of that target.
C9_Lifo ==
    [][\A t \in Loops :
         Checkout(t) =>
            LET r == ReturnedOf(req[t].selected_target) IN loc[t].entry = r[Len(r)]]_vars

\* C10: when the connect that follows the return of a live socket, with nothing
\* in between, comes back to its caller, the callback has received that socket's
\* fd and count and every request_count are what they were before the return.
C10_RoundTrip ==
    [][(rt.phase = "connect" /\ pc[rt.loop] # "idle" /\ pc'[rt.loop] = "idle") =>
         /\ out'.loop = rt.loop
         /\ out'.sock = rt.fd
         /\ out'.err = "none"
         /\ count' = rt.count0
         /\ [i \in 1..Len(targets') |-> targets'[i].request_count] = rt.rc0]_vars

\* C11 as stated: in a specific pool, whenever a request's final failure is
\* reported to the callback, every position of its tried[] bitmap is set.
C11_AllTriedAtFailure ==
    (out.loop # NoLoop /\ out.err # "none" /\ ~is_global) =>
        out.tried = 1..Len(targets)

\* C11 amended: in a specific pool with a balancer, whenever on_connect reports
\* "connection failed" (the last asynchronous failure of a request), every
\* position of the request's tried[] bitmap is set.
C11_AllTriedAtConnectionFailed ==
    (out.loop # NoLoop /\ out.err = "connection failed" /\ ~is_global /\ balancer) =>
        out.tried = 1..Len(targets)

\* the callback has just received "connection failed" from a request that tried
\* both targets of the pool
C11_Witness ==
    /\ out.loop # NoLoop
    /\ out.err = "connection failed"
    /\ Len(targets) = 2
    /\ out.tried = {1, 2}

\* C12: a step that expires an idle entry (destroys an entry of the pool-wide
\* list, the pool not being disposed) does so only when the entry has been idle
\* for the timeout: now(loop) - added_at >= timeout.
C12_NoEarlyExpiry ==
    [][\A e \in FDs :
         (e \in Range(sockets) /\ sk'[e].st = "closed" /\ ~disposed') =>
             now[interval_loop] - sk[e].added_at >= PoolTimeout]_vars

\* C13: a thread holds the mutex only inside the critical sections (target
\* lookup, selection, peek and unlink); it does not hold it while it probes an
\* entry, resolves, connects, exports, waits to lock, or has returned to its
\* loop, nor when the user callback has just run on it.
C13_MutexOnlyInCriticalSections ==
    \A t \in Loops :
        /\ mutex = t => pc[t] \in {"c_crit", "t_peek", "t_unlink"}
        /\ out.loop = t => mutex # t

\* a connect is about to probe the idle entry it took out, and the mutex is free
C13_Witness ==
    \E t \in Loops :
        /\ pc[t] = "t_probe"
        /\ loc[t].entry # NoSock
        /\ mutex = NoLoop

\* C14: a step that runs on_close or h2o_socketpool_return for a socket (its
\* hook is taken off) reaches the socket's target through the target vector, so
\* the thread that makes it holds the mutex.
C14_TargetVectorUnderMutex ==
    [][\A fd \in FDs :
         (sk[fd].hook /\ ~sk'[fd].hook) => mutex = sk[fd].loop]_vars

\* a connect of loop t has left its critical section and not yet chosen an entry
PastLookup(t) == pc[t] \in {"t_lock", "t_peek", "t_unlink"} /\ loc[t].url # "none"

\* C15: in a global pool no two targets have the same key, a connect that has
\* left its critical section has selected the target of the key it asked for,
\* and no step changes the key at an index of the vector.
C15_OneTargetPerKey ==
    [][is_global =>
         /\ \A i, j \in 1..Len(targets') :
                i # j => targets'[i].url # targets'[j].url
         /\ \A t \in Loops :
                PastLookup(t)' =>
                    /\ req'[t].selected_target \in 1..Len(targets')
                    /\ targets'[req'[t].selected_target].url = loc'[t].url
         /\ \A i \in 1..Len(targets) :
                i <= Len(targets') /\ targets'[i].url = targets[i].url]_vars

\* two loops have asked a global pool for the same key, both connects have left
\* their critical sections with index 1 selected, and the vector holds one target
C15_Witness ==
    /\ is_global
    /\ Len(targets) = 1
    /\ \A t \in Loops :
           /\ PastLookup(t)
           /\ loc[t].url = targets[1].url
           /\ req[t].selected_target = 1

\* C16: a tick that finds the mutex held by another thread changes neither the
\* lists nor count nor the mutex; every tick, with or without the mutex, leaves
\* the timer linked; so the timer is linked as long as the loop is registered.
C16_TickSkipsAndRearms ==
    [][/\ out'.timer = "skipped" =>
            /\ mutex \notin {NoLoop, interval_loop}
            /\ mutex' = mutex
            /\ sockets' = sockets
            /\ targets' = targets
            /\ count' = count
       /\ out'.timer # "none" => armed'
       /\ interval_loop' # NoLoop => armed']_vars

\* the timer has just fired while the other loop held the mutex and an idle
\* entry was in the list; it is linked again
C16_Witness ==
    /\ out.timer = "skipped"
    /\ mutex \notin {NoLoop, interval_loop}
    /\ Len(sockets) >= 1
    /\ armed

\* C17: in a pool with a balancer, a request's remaining_try_count plus the
\* number of targets it has tried is the number of targets N; when it is about
\* to call the selector, remaining_try_count is at least 1, so after the
\* decrement the two add up to N - 1 and some target is untried; the target of
\* an attempt under way is marked tried.  So a request makes at most N attempts.
C17_TriesBounded ==
    \A t \in Loops :
        (balancer /\ req[t].st # "none" /\ req[t].has_tried) =>
            /\ req[t].remaining_try_count >= 0
            /\ req[t].remaining_try_count + Cardinality(req[t].tried) = Len(targets)
            /\ pc[t] = "t_lock" =>
                   /\ (req[t].remaining_try_count - 1) + Cardinality(req[t].tried)
                          = Len(targets) - 1
                   /\ Selector(req[t]) # {}
            /\ pc[t] # "t_lock" => req[t].selected_target \in req[t].tried

\* after the asynchronous failure of its first attempt, a request is about to
\* call the selector again
C17_Witness ==
    \E t \in Loops :
        /\ balancer
        /\ pc[t] = "t_lock"
        /\ Cardinality(req[t].tried) = 1
        /\ req[t].sock_closed

\* the attempt of loop t's request fails in this step before a socket exists for
\* it: inside try_connect (the connect primitive gives NULL) or in on_getaddr
FailsBeforeSocket(t) ==
    /\ \/ req[t].st = "running" /\ pc[t] = "t_peek"
       \/ req[t].st = "resolving"
    /\ req'[t].st = "none"
    /\ out'.loop = t

\* C18: a failure before a socket exists ends the request: the callback gets
\* "failed to connect to host" or the resolver's error, the thread is back in its
\* loop with no attempt under way, and count is what it was before the attempt
\* counted itself (for the only request of a run: what it was before the call).
C18_EarlyFailureEndsRequest ==
    [][\A t \in Loops :
         (FailsBeforeSocket(t) /\ out'.err # "none") =>
            /\ out'.err \in {"failed to connect to host", "resolver error"}
            /\ req[t].st = "running" => out'.err = "failed to connect to host"
            /\ pc'[t] = "idle"
            /\ ~resolver'[t]
            /\ \A fd \in FDs : sk'[fd].st = "connecting" => sk[fd].st = "connecting"
            /\ count' = IF req[t].st = "running" THEN count ELSE count - 1
            /\ ops = 1 => count' = req[t].count0]_vars

\* the second attempt of a request, made after the asynchronous failure of the
\* first, has just failed synchronously
C18_Witness ==
    /\ out.loop # NoLoop
    /\ out.err = "failed to connect to host"
    /\ Cardinality(out.tried) = 2

\* C19: the callback gets a null socket with every error, and an open socket
\* with no error.
C19_SockIffNoError ==
    out.loop # NoLoop =>
        /\ out.err # "none" => out.sock = NoSock
        /\ out.err = "none" => (out.sock # NoSock /\ sk[out.sock].st = "open")

\* C20: whenever a request can be cancelled (it waits for the resolver or for
\* its connect), its sock field is null or refers to a socket that has not been
\* closed.
C20_NoDanglingSock ==
    \A t \in Loops :
        (pc[t] = "idle" /\ req[t].st \in {"resolving", "connecting"}) =>
            (req[t].sock = NoSock \/ ~req[t].sock_closed)

====
